---- MODULE Spec2Model ----
(***************************************************************************)
(* Model of the emcy-sdk telemetry collector (EmcyTelemetry) and its       *)
(* delivery transport (TelemetryTransport).                                *)
(*                                                                         *)
(* The JavaScript runs on one thread: a step of the model is one           *)
(* synchronous run-to-suspension of the code (a call made by the           *)
(* application, a timer callback, the continuation of an awaited fetch or  *)
(* of an awaited delay).  Time is carried by the pending timers: each one  *)
(* holds the milliseconds left until it is due, and Advance lets TimeStep  *)
(* milliseconds pass for all of them at once.                              *)
(***************************************************************************)
EXTENDS Integers, Sequences, FiniteSets, TLC

VARIABLES
    config,      \* the EmcyConfig passed to the constructor
    queue,       \* EmcyTelemetry.queue
    flushTimer,  \* EmcyTelemetry.flushTimer: NULL, or ms left to the next tick
    sends,       \* one entry per TelemetryTransport.send call, in call order
    stopped,     \* history: shutdown() has been called
    pending,     \* trace() calls whose operation has not settled yet
    nextId,      \* next fresh invocationId
    logged,      \* history: every record passed to log(), in call order
    metadata,    \* EmcyTelemetry.metadata
    returned     \* what the step just taken handed to its caller: the outcome
                 \* of the trace() that settled in it, NoCall otherwise

vars == <<config, queue, flushTimer, sends, stopped, pending, nextId, logged,
          metadata, returned>>

----------------------------------------------------------------------------
(* Program constants *)

DEFAULT_BATCH_SIZE == 10
DEFAULT_FLUSH_INTERVAL == 5000
MAX_RETRIES == 3
RETRY_DELAY_MS == 1000

(* Bounds of the model *)

\* records logged in one behaviour (through log() and trace() together)
MaxLog == 2
\* milliseconds that pass in one Advance step
TimeStep == 1000
\* direct calls of transport.send in one behaviour of the transport alone
MaxSendCalls == 2

NULL == -1

\* config.batchSize / config.flushInterval as given; 0 stands for "not given"
ConfigBatchSizes == {0, 1, 2}
ConfigFlushIntervals == {1000}
\* config.mcpServerId as given; "" stands for "not given"
ConfigServerIds == {""}

\* what the endpoint can answer to one request: a response, or fetch throws
Response(ok, status) == [kind |-> "response", ok |-> ok, status |-> status]
Thrown == [kind |-> "throw", ok |-> FALSE, status |-> 0]

\* the answers the collector is run against
Answers == {Response(TRUE, 200), Response(FALSE, 401), Response(FALSE, 500),
            Thrown}

\* the answers the transport alone is run against: the statuses around the
\* bounds of the 4xx range as well
Responses ==
    {Response(TRUE, 200), Response(FALSE, 304), Response(FALSE, 400),
     Response(FALSE, 499), Response(FALSE, 500), Response(FALSE, 599), Thrown}

----------------------------------------------------------------------------
(* Helpers *)

Max(a, b) == IF a >= b THEN a ELSE b

RECURSIVE Pow2(_)
Pow2(n) == IF n <= 0 THEN 1 ELSE 2 * Pow2(n - 1)

\* `x || d` on numbers: 0 and undefined are falsy
OrDefault(x, d) == IF x = 0 THEN d ELSE x

batchSize == OrDefault(config.batchSize, DEFAULT_BATCH_SIZE)
flushInterval == OrDefault(config.flushInterval, DEFAULT_FLUSH_INTERVAL)

----------------------------------------------------------------------------
(* JavaScript values: what an operation passed to trace() resolves to or   *)
(* throws, and what the fields of a record hold.  An object is the record  *)
(* of its own properties; a property that is not there is not in DOMAIN.   *)

Undefined == [type |-> "undefined"]
Null == [type |-> "null"]
Number(n) == [type |-> "number", num |-> n]
Str(s) == [type |-> "string", str |-> s]
BigInt(n) == [type |-> "bigint", num |-> n]
Object(fields) == [type |-> "object", fields |-> fields]
\* new Error(message), with its own property `code` when that is given
ErrorObject(message, code) ==
    [type |-> "error", message |-> message, code |-> code,
     stack |-> "Error: at fn"]

\* the value as a condition: `if (v)`
Truthy(v) ==
    CASE v.type \in {"undefined", "null"} -> FALSE
      [] v.type = "number" -> v.num # 0
      [] v.type = "string" -> v.str # ""
      [] OTHER -> TRUE

\* typeof v === 'object'
TypeOfObject(v) == v.type \in {"object", "error", "null"}

\* `key in v`, v an object
In(key, v) == v.type = "object" /\ key \in DOMAIN v.fields

\* v[key]
Get(v, key) == IF In(key, v) THEN v.fields[key] ELSE Undefined

\* String(v)
ToStr(v) ==
    CASE v.type = "string" -> v.str
      [] v.type = "number" -> ToString(v.num)
      [] v.type = "bigint" -> ToString(v.num)
      [] v.type = "undefined" -> "undefined"
      [] v.type = "null" -> "null"
      [] v.type = "error" -> "Error: " \o v.message
      [] OTHER -> "[object Object]"

\* { ...a, ...b }: the properties of b over those of a
Spread(a, b) == b @@ a

\* how the operation passed to trace() settles
Resolved(value) == [kind |-> "resolved", value |-> value]
Rejected(error) == [kind |-> "rejected", value |-> error]

----------------------------------------------------------------------------
(* TelemetryTransport.send, as a process: one entry of `sends` per call.   *)
(*   pc       "fetch": suspended in `await fetch(...)`                     *)
(*            "delay": suspended in `await this.delay(...)`                *)
(*            "done":  returned                                            *)
(*   attempt, lastError: the locals of send                                *)
(*   timer    the setTimeout of delay(): ms asked for, ms left             *)
(*   result   what send returned ("pending" until it returns)              *)
(*   requests, slept: history (fetch calls made, how long each delay()     *)
(*            really lasted)                                               *)
(*   last, failures: history kept for the endpoint (its latest answer to   *)
(*            this send, how many of its answers were neither a success    *)
(*            nor a 4xx)                                                   *)
(*   awaited  a shutdown() call is suspended in `await this.flush()` on    *)
(*            the flush that made this send                                *)

NoError == [kind |-> "null", ok |-> FALSE, status |-> 0]
NoTimer == [ms |-> 0, left |-> 0]

\* setTimeout(resolve, ms)
SetTimeout(ms) == [ms |-> ms, left |-> ms]

\* a fixed delay, the exponent forgotten
FixedDelay(attempt) == RETRY_DELAY_MS

\* the argument of this.delay(...) after a failed attempt
BackoffDelay(attempt) == RETRY_DELAY_MS * Pow2(attempt)

\* `return true` / `return false`: the call is over, its locals are gone
Return(s, value) ==
    [s EXCEPT !.pc = "done", !.result = value, !.lastError = NoError]

\* JSON.stringify(v) returns: it throws a TypeError on a BigInt
Stringifies(v) == v.type # "bigint"

\* JSON.stringify(batch) returns: every value a record of the batch carries
\* as its output body can be serialised
Serialisable(batch) ==
    \A k \in 1..Len(batch.invocations) :
        LET rec == batch.invocations[k]
        IN ("output" \in DOMAIN rec /\ "body" \in DOMAIN rec.output)
               => Stringifies(rec.output.body)

\* new Error(String(error)) / the TypeError of JSON.stringify
BuildError == [kind |-> "throw", ok |-> FALSE, status |-> 0]

RECURSIVE Backoff(_)

\* no try around the request: the exception of JSON.stringify leaves send
IssueFetchUncaught(s) ==
    IF Serialisable(s.batch)
    THEN [s EXCEPT !.pc = "fetch", !.requests = @ + 1]
    ELSE Return(s, "rejected")

\* `await fetch(this.endpoint, { ..., body: JSON.stringify(batch) })` inside
\* the try: the body is built first; then the request goes out and send
\* suspends, or the exception of JSON.stringify is caught, no request was
\* made, and the attempt ends as a failed one
IssueFetch(s) ==
    IF Serialisable(s.batch)
    THEN [s EXCEPT !.pc = "fetch", !.requests = @ + 1]
    ELSE Backoff([s EXCEPT !.lastError = BuildError])

\* `<=` for `<` in the loop test
LoopTestInclusive(s) ==
    IF s.attempt <= MAX_RETRIES THEN IssueFetch(s) ELSE Return(s, "false")

\* the loop test `attempt < MAX_RETRIES`, then the body or the code after it
LoopTest(s) ==
    IF s.attempt < MAX_RETRIES THEN IssueFetch(s) ELSE Return(s, "false")

\* `attempt++` and back to the loop test
NextAttempt(s) == LoopTest([s EXCEPT !.attempt = @ + 1])

\* `if (attempt < MAX_RETRIES - 1) await this.delay(...)`
Backoff(s) ==
    IF s.attempt < MAX_RETRIES - 1
    THEN [s EXCEPT !.pc = "delay",
                   !.timer = SetTimeout(BackoffDelay(s.attempt))]
    ELSE NextAttempt(s)

IsClientError(r) == r.status >= 400 /\ r.status < 500

\* the 4xx test left out: a client error is retried like a server error
AfterFetchRetryAll(s, r) ==
    IF r.kind = "throw" THEN Backoff([s EXCEPT !.lastError = r])
    ELSE IF r.ok THEN Return(s, "true")
    ELSE Backoff([s EXCEPT !.lastError = r])

\* success recognised on the first attempt only
AfterFetchFirstOnly(s, r) ==
    IF r.kind = "throw" THEN Backoff([s EXCEPT !.lastError = r])
    ELSE IF r.ok /\ s.attempt = 0 THEN Return(s, "true")
    ELSE IF IsClientError(r) THEN Return(s, "false")
    ELSE Backoff([s EXCEPT !.lastError = r])

\* no catch around fetch: its exception leaves send
AfterFetchRethrow(s, r) ==
    IF r.kind = "throw" THEN Return(s, "rejected")
    ELSE IF r.ok THEN Return(s, "true")
    ELSE IF IsClientError(r) THEN Return(s, "false")
    ELSE Backoff([s EXCEPT !.lastError = r])

\* the continuation of `await fetch(...)` with answer r
AfterFetch(s, r) ==
    IF r.kind = "throw" THEN Backoff([s EXCEPT !.lastError = r])
    ELSE IF r.ok THEN Return(s, "true")
    ELSE IF IsClientError(r) THEN Return(s, "false")
    ELSE Backoff([s EXCEPT !.lastError = r])

\* the delay armed again when it is due, the loop never resumed
AfterDelayAgain(s) == [s EXCEPT !.timer = SetTimeout(s.timer.ms)]

\* the continuation of `await this.delay(...)`
AfterDelay(s) ==
    NextAttempt([s EXCEPT !.slept = Append(@, s.timer.ms - s.timer.left),
                          !.timer = NoTimer])

\* the first request put off to a later turn of the event loop
StartSendDeferred(batch, awaited) ==
    [batch |-> batch, attempt |-> -1,
     pc |-> "delay", lastError |-> NoError, timer |-> SetTimeout(0),
     result |-> "pending", requests |-> 0, slept |-> << >>,
     last |-> NoError, failures |-> 0,
     awaited |-> awaited]

\* transport.send(batch), run to its first suspension
StartSend(batch, awaited) ==
    LoopTest([batch |-> batch, attempt |-> 0,
              pc |-> "start", lastError |-> NoError, timer |-> NoTimer,
              result |-> "pending", requests |-> 0, slept |-> << >>,
              last |-> NoError, failures |-> 0,
              awaited |-> awaited])

----------------------------------------------------------------------------
(* EmcyTelemetry *)

\* unshift for push: the newest record goes to the front
PushFront(q, invocation) == <<invocation>> \o q

\* this.queue.push(invocation)
Push(q, invocation) == Append(q, invocation)

\* a copy instead of a drain (slice for splice): the queue keeps its records
SpliceKeeps(q) == [removed |-> q, rest |-> q]

\* this.queue.splice(0, this.queue.length): what is removed, what stays
Splice(q) == [removed |-> q, rest |-> << >>]

\* flush() without its test for an empty queue
FlushUnguarded(q, s, awaited) ==
    LET sp == Splice(q)
        batch == [apiKey |-> config.apiKey, invocations |-> sp.removed]
    IN [queue |-> sp.rest, sends |-> Append(s, StartSend(batch, awaited))]

\* a transport with one send at a time: a new batch ends the sends that
\* are still under way
FlushCancelling(q, s, awaited) ==
    IF Len(q) = 0
    THEN [queue |-> q, sends |-> s]
    ELSE LET sp == Splice(q)
             batch == [apiKey |-> config.apiKey,
                       invocations |-> sp.removed]
             ended == [i \in 1..Len(s) |->
                          IF s[i].pc = "done" THEN s[i]
                          ELSE Return(s[i], "false")]
         IN [queue |-> sp.rest,
             sends |-> Append(ended, StartSend(batch, awaited))]

\* flush(), run to its first suspension, on queue q and send list s;
\* `awaited`: the caller is shutdown(), which awaits the promise
Flush(q, s, awaited) ==
    IF Len(q) = 0
    THEN [queue |-> q, sends |-> s]
    ELSE LET sp == Splice(q)
             batch == [apiKey |-> config.apiKey,
                       invocations |-> sp.removed]
         IN [queue |-> sp.rest,
             sends |-> Append(s, StartSend(batch, awaited))]

\* `>` for `>=` in the test at the end of log()
SizeExceeded(q) == Len(q) > batchSize

\* the test at the end of log()
SizeReached(q) == Len(q) >= batchSize

\* the size test made before the push instead of after it
LogEffectTestFirst(invocation) ==
    LET f == IF SizeReached(queue) THEN Flush(queue, sends, FALSE)
             ELSE [queue |-> queue, sends |-> sends]
    IN /\ queue' = Push(f.queue, invocation)
       /\ sends' = f.sends
       /\ logged' = Append(logged, invocation)

\* a collector that is closed by shutdown(): log() then only queues
LogEffectClosed(invocation) ==
    LET q1 == Push(queue, invocation)
        f == IF SizeReached(q1) /\ ~stopped THEN Flush(q1, sends, FALSE)
             ELSE [queue |-> q1, sends |-> sends]
    IN /\ queue' = f.queue
       /\ sends' = f.sends
       /\ logged' = Append(logged, invocation)

\* log(invocation)
LogEffect(invocation) ==
    LET q1 == Push(queue, invocation)
        f == IF SizeReached(q1) THEN Flush(q1, sends, FALSE)
             ELSE [queue |-> q1, sends |-> sends]
    IN /\ queue' = f.queue
       /\ sends' = f.sends
       /\ logged' = Append(logged, invocation)

\* every result taken as the body, a response-like object too
extractOutputBodyOnly(result) == [body |-> result]

\* extractOutput(result)
extractOutput(result) ==
    IF Truthy(result) /\ TypeOfObject(result) /\ In("status", result)
    THEN [status |-> Get(result, "status"), body |-> Get(result, "data")]
    ELSE [body |-> result]

\* a fixed message for what is no Error instance
extractErrorUnknown(error) ==
    IF error.type = "error"
    THEN [message |-> error.message, code |-> error.code,
          stack |-> error.stack]
    ELSE [message |-> "Unknown error"]

\* extractError(error)
extractError(error) ==
    IF error.type = "error"
    THEN [message |-> error.message, code |-> error.code,
          stack |-> error.stack]
    ELSE [message |-> ToStr(error)]

\* the collector's metadata left out of the record
InvocationBare(t, o) ==
    LET meta == [sessionId |-> t.sessionId]
    IN IF o.kind = "resolved"
       THEN [invocationId |-> t.invocationId, success |-> TRUE,
             output |-> extractOutput(o.value), metadata |-> meta]
       ELSE [invocationId |-> t.invocationId, success |-> FALSE,
             error |-> extractError(o.value), metadata |-> meta]

\* an output in the record of a failure as well
InvocationBoth(t, o) ==
    LET meta == Spread([sessionId |-> t.sessionId], metadata)
    IN IF o.kind = "resolved"
       THEN [invocationId |-> t.invocationId, success |-> TRUE,
             output |-> extractOutput(o.value), metadata |-> meta]
       ELSE [invocationId |-> t.invocationId, success |-> FALSE,
             output |-> extractOutput(Undefined),
             error |-> extractError(o.value), metadata |-> meta]

\* the collector's metadata read when trace() is called, not when the
\* operation settles
InvocationAtStart(t, o) ==
    LET meta == Spread([sessionId |-> t.sessionId], t.started)
    IN IF o.kind = "resolved"
       THEN [invocationId |-> t.invocationId, success |-> TRUE,
             output |-> extractOutput(o.value), metadata |-> meta]
       ELSE [invocationId |-> t.invocationId, success |-> FALSE,
             error |-> extractError(o.value), metadata |-> meta]

\* the record trace() passes to log() when its operation has settled with
\* outcome o; t holds the locals of the call.  toolName, timestamp,
\* duration and input are left out: nothing in the collector reads them.
Invocation(t, o) ==
    LET meta == Spread([sessionId |-> t.sessionId], metadata)
    IN IF o.kind = "resolved"
       THEN [invocationId |-> t.invocationId, success |-> TRUE,
             output |-> extractOutput(o.value), metadata |-> meta]
       ELSE [invocationId |-> t.invocationId, success |-> FALSE,
             error |-> extractError(o.value), metadata |-> meta]

\* the error of the operation replaced by one of the collector's own
SettledWrapped(t, o) ==
    [call |-> "trace", invocationId |-> t.invocationId,
     outcome |-> IF o.kind = "rejected"
                 THEN Rejected(ErrorObject("trace failed", Undefined))
                 ELSE o]

\* `return result` / `throw error` at the end of trace()
Settled(t, o) ==
    [call |-> "trace", invocationId |-> t.invocationId, outcome |-> o]

\* the step settled no trace()
NoCall == [call |-> "none"]

\* this.metadata after the constructor
InitialMetadata(c) ==
    IF c.mcpServerId # "" THEN [mcpServerId |-> c.mcpServerId] ELSE << >>

\* the locals of a trace() call made with no options; `started` is no
\* local of the code: it remembers this.metadata as it was at the call
TraceCall(id) ==
    [invocationId |-> id, sessionId |-> Undefined, started |-> metadata]

\* the operations the collector is run against all resolve to 42, and the
\* records given to log() are of the shape trace() builds for them
Outcomes == {Resolved(Number(42))}
LogArguments(id) == {Invocation(TraceCall(id), o) : o \in Outcomes}
TraceOptions == {[sessionId |-> Undefined]}

\* shutdown() leaving the interval running
KeepTimer(t) == t

\* a shutdown() that finds no timer starts one
ClearTimerRestarting(t) == IF t # NULL THEN NULL ELSE flushInterval

\* clearInterval(this.flushTimer); this.flushTimer = null
ClearTimer(t) == IF t # NULL THEN NULL ELSE t

\* flush() not awaiting transport.send: its promise resolves at once
FlushNotAwaiting(s) == TRUE

\* `await this.transport.send(...)` in flush() is over: flush() resolves
FlushSettled(s) == s.pc = "done"

\* time passing for one timer
Elapse(left) == Max(0, left - TimeStep)

----------------------------------------------------------------------------
(* State after `new EmcyTelemetry(config)` *)

Init ==
    /\ config \in [apiKey : {"test-key"},
                   mcpServerId : ConfigServerIds,
                   batchSize : ConfigBatchSizes,
                   flushInterval : ConfigFlushIntervals]
    /\ queue = << >>
    /\ flushTimer = flushInterval
    /\ sends = << >>
    /\ stopped = FALSE
    /\ pending = {}
    /\ nextId = 1
    /\ logged = << >>
    /\ metadata = InitialMetadata(config)
    /\ returned = NoCall

----------------------------------------------------------------------------
(* Steps made by the application *)

\* the server info written into the records of the queue as well
SetServerInfoRetroactive(name, version) ==
    /\ metadata' = Spread(metadata, [serverName |-> name,
                                      serverVersion |-> version])
    /\ queue' = [k \in 1..Len(queue) |->
                   IF "metadata" \in DOMAIN queue[k]
                   THEN [queue[k] EXCEPT !.metadata = Spread(@, metadata')]
                   ELSE queue[k]]
    /\ UNCHANGED <<config, flushTimer, sends, stopped, pending,
                   nextId, logged>>
    /\ returned' = NoCall

\* telemetry.setServerInfo(name, version)
SetServerInfo(name, version) ==
    /\ metadata' = Spread(metadata, [serverName |-> name,
                                      serverVersion |-> version])
    /\ UNCHANGED <<config, queue, flushTimer, sends, stopped, pending,
                   nextId, logged>>
    /\ returned' = NoCall

\* telemetry.log(invocation) with a record built by the caller, whose
\* invocationId is nextId
Log(invocation) ==
    /\ nextId <= MaxLog
    /\ invocation.invocationId = nextId
    /\ LogEffect(invocation)
    /\ nextId' = nextId + 1
    /\ UNCHANGED <<config, flushTimer, stopped, pending, metadata>>
    /\ returned' = NoCall

\* telemetry.trace(toolName, fn, options): up to the suspension in
\* `await fn()`
TraceStart(options) ==
    /\ nextId <= MaxLog
    /\ pending' = pending \cup {[invocationId |-> nextId,
                                  sessionId |-> options.sessionId,
                                  started |-> metadata]}
    /\ nextId' = nextId + 1
    /\ UNCHANGED <<config, queue, flushTimer, sends, stopped, logged,
                   metadata>>
    /\ returned' = NoCall

\* the continuation of `await fn()` in the call with locals t, fn having
\* settled with outcome o: resolved with a value, or thrown an error
TraceSettle(t, o) ==
    /\ t \in pending
    /\ pending' = pending \ {t}
    /\ LogEffect(Invocation(t, o))
    /\ returned' = Settled(t, o)
    /\ UNCHANGED <<config, flushTimer, stopped, nextId, metadata>>

\* telemetry.flush() called by the application
FlushCall ==
    /\ LET f == Flush(queue, sends, FALSE) IN
         /\ queue' = f.queue
         /\ sends' = f.sends
    /\ UNCHANGED <<config, flushTimer, stopped, pending, nextId, logged,
                   metadata>>
    /\ returned' = NoCall

\* telemetry.shutdown(), up to the suspension in `await this.flush()`
Shutdown ==
    /\ flushTimer' = ClearTimer(flushTimer)
    /\ stopped' = TRUE
    /\ LET f == Flush(queue, sends, TRUE) IN
         /\ queue' = f.queue
         /\ sends' = f.sends
    /\ UNCHANGED <<config, pending, nextId, logged, metadata>>
    /\ returned' = NoCall

\* shutdown() returning with its send still under way
ShutdownReturnEarly(i) ==
    /\ i \in 1..Len(sends)
    /\ sends[i].awaited
    /\ sends' = [sends EXCEPT ![i].awaited = FALSE]
    /\ UNCHANGED <<config, queue, flushTimer, stopped, pending, nextId,
                   logged, metadata>>
    /\ returned' = NoCall

\* the continuation of `await this.flush()` in shutdown(): it returns
ShutdownReturn(i) ==
    /\ i \in 1..Len(sends)
    /\ sends[i].awaited
    /\ FlushSettled(sends[i])
    /\ sends' = [sends EXCEPT ![i].awaited = FALSE]
    /\ UNCHANGED <<config, queue, flushTimer, stopped, pending, nextId,
                   logged, metadata>>
    /\ returned' = NoCall

----------------------------------------------------------------------------
(* Steps made by the event loop *)

\* an interval callback that does not flush
TimerTickIdle ==
    /\ flushTimer # NULL
    /\ flushTimer = 0
    /\ flushTimer' = flushInterval
    /\ UNCHANGED <<config, queue, sends, stopped, pending, nextId, logged,
                   metadata>>
    /\ returned' = NoCall

\* the setInterval callback of startFlushTimer
TimerTick ==
    /\ flushTimer # NULL
    /\ flushTimer = 0
    /\ flushTimer' = flushInterval
    /\ LET f == Flush(queue, sends, FALSE) IN
         /\ queue' = f.queue
         /\ sends' = f.sends
    /\ UNCHANGED <<config, stopped, pending, nextId, logged, metadata>>
    /\ returned' = NoCall

\* an answer that is neither a success nor a client error: a 5xx, any other
\* status that is not ok, or no answer at all (fetch throws)
OtherFailure(r) ==
    \/ r.kind = "throw"
    \/ r.kind = "response" /\ ~r.ok /\ r.status \notin 400..499

\* the endpoint's record of its answer r to send s
Answered(s, r) ==
    [s EXCEPT !.last = r,
              !.failures = IF OtherFailure(r) THEN @ + 1 ELSE @]

\* a batch whose send returns false put back at the front of the queue
FetchSettleRequeue(i, r) ==
    /\ i \in 1..Len(sends)
    /\ sends[i].pc = "fetch"
    /\ sends' = [sends EXCEPT ![i] = Answered(AfterFetch(@, r), r)]
    /\ queue' = IF sends'[i].result = "false"
                THEN sends[i].batch.invocations \o queue
                ELSE queue
    /\ UNCHANGED <<config, flushTimer, stopped, pending, nextId, logged,
                   metadata>>
    /\ returned' = NoCall

\* the endpoint answers the request of send i, or fetch throws
FetchSettle(i, r) ==
    /\ i \in 1..Len(sends)
    /\ sends[i].pc = "fetch"
    /\ sends' = [sends EXCEPT ![i] = Answered(AfterFetch(@, r), r)]
    /\ UNCHANGED <<config, queue, flushTimer, stopped, pending, nextId,
                   logged, metadata>>
    /\ returned' = NoCall

\* the setTimeout of delay() in send i is due
DelayFire(i) ==
    /\ i \in 1..Len(sends)
    /\ sends[i].pc = "delay"
    /\ sends[i].timer.left = 0
    /\ sends' = [sends EXCEPT ![i] = AfterDelay(@)]
    /\ UNCHANGED <<config, queue, flushTimer, stopped, pending, nextId,
                   logged, metadata>>
    /\ returned' = NoCall

\* the ms left of every pending timer
TimersLeft ==
    (IF flushTimer = NULL THEN {} ELSE {flushTimer})
    \cup {sends[i].timer.left : i \in {j \in 1..Len(sends) : sends[j].pc = "delay"}}

\* TimeStep milliseconds pass; a timer that is due runs before more time
\* passes (the timers phase of the event loop runs every due callback)
Advance ==
    /\ TimersLeft # {}
    /\ 0 \notin TimersLeft
    /\ flushTimer' = IF flushTimer = NULL THEN NULL ELSE Elapse(flushTimer)
    /\ sends' = [i \in 1..Len(sends) |->
                   IF sends[i].pc = "delay"
                   THEN [sends[i] EXCEPT !.timer.left = Elapse(@)]
                   ELSE sends[i]]
    /\ UNCHANGED <<config, queue, stopped, pending, nextId, logged,
                   metadata>>
    /\ returned' = NoCall

Next ==
    \/ \E invocation \in LogArguments(nextId) : Log(invocation)
    \/ \E options \in TraceOptions : TraceStart(options)
    \/ \E t \in pending, o \in Outcomes : TraceSettle(t, o)
    \/ FlushCall
    \/ Shutdown
    \/ \E i \in 1..Len(sends) : ShutdownReturn(i)
    \/ TimerTick
    \/ \E i \in 1..Len(sends), r \in Answers : FetchSettle(i, r)
    \/ \E i \in 1..Len(sends) : DelayFire(i)
    \/ Advance

Spec == Init /\ [][Next]_vars

\* Time does not stop and the event loop runs every timer callback that is
\* due: the interval callback and the continuation of each delay().  The
\* endpoint is under no obligation: a request may stay unanswered.
TimerFairness ==
    /\ WF_vars(Advance)
    /\ WF_vars(TimerTick)
    /\ \A i \in 1..MaxLog : WF_vars(DelayFire(i))

FairSpec == Spec /\ TimerFairness

----------------------------------------------------------------------------
(* The collector in an application whose operations fail as well: its     *)
(* trace() calls settle, with a value or with an error, while sends are    *)
(* in flight, retrying or over.                                            *)

AppOutcomes == {Resolved(Number(42)),
                Rejected(ErrorObject("boom", Undefined))}

AppInit == Init /\ config.batchSize = 2

AppNext ==
    \/ \E invocation \in LogArguments(nextId) : Log(invocation)
    \/ \E options \in TraceOptions : TraceStart(options)
    \/ \E t \in pending, o \in AppOutcomes : TraceSettle(t, o)
    \/ FlushCall
    \/ Shutdown
    \/ \E i \in 1..Len(sends) : ShutdownReturn(i)
    \/ TimerTick
    \/ \E i \in 1..Len(sends), r \in Answers : FetchSettle(i, r)
    \/ \E i \in 1..Len(sends) : DelayFire(i)
    \/ Advance

AppSpec == AppInit /\ [][AppNext]_vars

----------------------------------------------------------------------------
(* The records: operations of every kind traced, records of the caller's   *)
(* own making logged, the server info set and set again.  No time passes   *)
(* and the endpoint never answers: what is in a record does not depend on  *)
(* the delivery.                                                           *)

FnResults == {Number(42),
              Object([status |-> Number(200), data |-> Str("ok")])}
FnErrors == {ErrorObject("Test error", Undefined), Str("oops")}
TraceOutcomes ==
    {Resolved(v) : v \in FnResults} \cup {Rejected(x) : x \in FnErrors}

\* trace() with and without options.sessionId
TraceSessions == {[sessionId |-> Undefined],
                  [sessionId |-> Str("session-123")]}

\* the records the caller builds for log(): the one of the tests (success,
\* and neither output nor error nor metadata), and a failure with its own
\* metadata
ManualRecords(id) ==
    {[invocationId |-> id, success |-> TRUE],
     [invocationId |-> id, success |-> FALSE,
      error |-> [message |-> "failed"],
      metadata |-> [userId |-> Str("user-1")]]}

\* the arguments of setServerInfo
ServerInfos == {[name |-> "test-server", version |-> "1.0.0"],
                [name |-> "other-server", version |-> "2.0.0"]}

TraceInit ==
    /\ config = [apiKey |-> "test-key", mcpServerId |-> "server-123",
                 batchSize |-> 2, flushInterval |-> 1000]
    /\ queue = << >>
    /\ flushTimer = flushInterval
    /\ sends = << >>
    /\ stopped = FALSE
    /\ pending = {}
    /\ nextId = 1
    /\ logged = << >>
    /\ metadata = InitialMetadata(config)
    /\ returned = NoCall

TraceNext ==
    \/ \E info \in ServerInfos : SetServerInfo(info.name, info.version)
    \/ \E invocation \in ManualRecords(nextId) : Log(invocation)
    \/ \E options \in TraceSessions : TraceStart(options)
    \/ \E t \in pending, o \in TraceOutcomes : TraceSettle(t, o)
    \/ FlushCall

TraceSpec == TraceInit /\ [][TraceNext]_vars

\* The collector tracing operations of every kind of result and of thrown
\* value: numbers, strings, null, undefined, plain objects, objects with a
\* status (with and without data), Error instances with and without a
\* code.
FnValues ==
    {Number(42), Number(0), Str("ok"), Str(""), Null, Undefined,
     Object([name |-> Str("x")]),
     Object([status |-> Number(200), data |-> Str("ok")]),
     Object([status |-> Number(404)])}
ThrownValues ==
    {ErrorObject("Test error", Undefined),
     ErrorObject("denied", Str("E_ACCESS")),
     Str("oops"), Number(404), Null, Undefined,
     Object([reason |-> Str("x")])}
ValueOutcomes ==
    {Resolved(v) : v \in FnValues} \cup {Rejected(x) : x \in ThrownValues}

ValueNext ==
    \/ \E options \in TraceOptions : TraceStart(options)
    \/ \E t \in pending, o \in ValueOutcomes : TraceSettle(t, o)
    \/ FlushCall

ValueSpec == TraceInit /\ [][ValueNext]_vars

----------------------------------------------------------------------------
(* The transport alone: `new TelemetryTransport()` and direct calls of     *)
(* send, with no collector around it (no queue in use, no interval timer). *)

SendInit ==
    /\ config = [apiKey |-> "test-api-key", mcpServerId |-> "",
                 batchSize |-> 0, flushInterval |-> 0]
    /\ queue = << >>
    /\ flushTimer = NULL
    /\ sends = << >>
    /\ stopped = FALSE
    /\ pending = {}
    /\ nextId = 1
    /\ logged = << >>
    /\ metadata = << >>
    /\ returned = NoCall

\* transport.send(batch) with a batch of one record, built by the caller
SendBatch(invocation) ==
    /\ Len(sends) < MaxSendCalls
    /\ LET batch == [apiKey |-> config.apiKey,
                     invocations |-> <<invocation>>]
       IN sends' = Append(sends, StartSend(batch, FALSE))
    /\ nextId' = nextId + 1
    /\ UNCHANGED <<config, queue, flushTimer, stopped, pending, logged,
                   metadata>>
    /\ returned' = NoCall

\* transport.send(createBatch())
SendCall == SendBatch([invocationId |-> nextId])

SendNext ==
    \/ SendCall
    \/ \E i \in 1..Len(sends), r \in Responses : FetchSettle(i, r)
    \/ \E i \in 1..Len(sends) : DelayFire(i)
    \/ Advance

SendSpec == SendInit /\ [][SendNext]_vars

\* The event loop runs every continuation that is ready: each request is
\* answered in the end (or its fetch throws), each due setTimeout callback
\* runs, and time does not stop while a timer is pending.
SendFairness ==
    /\ \A i \in 1..MaxSendCalls :
         WF_vars(\E r \in Responses : FetchSettle(i, r))
    /\ \A i \in 1..MaxSendCalls : WF_vars(DelayFire(i))
    /\ WF_vars(Advance)

FairSendSpec == SendSpec /\ SendFairness

\* The transport alone, handed batches whose body can or cannot be built:
\* a record as the caller writes it, and the record of an operation that
\* returned a BigInt.
BatchRecords(id) ==
    {[invocationId |-> id],
     [invocationId |-> id, success |-> TRUE,
      output |-> extractOutput(BigInt(7))]}

BuildNext ==
    \/ \E invocation \in BatchRecords(nextId) : SendBatch(invocation)
    \/ \E i \in 1..Len(sends), r \in Responses : FetchSettle(i, r)
    \/ \E i \in 1..Len(sends) : DelayFire(i)
    \/ Advance

BuildSpec == SendInit /\ [][BuildNext]_vars

FairBuildSpec == BuildSpec /\ SendFairness

----------------------------------------------------------------------------
(* Vocabulary of the properties *)

Sends == 1..Len(sends)
InFlight(i) == sends[i].pc # "done"
Batch(i) == sends[i].batch.invocations

Occurrences(seq, x) == Cardinality({k \in 1..Len(seq) : seq[k] = x})

RECURSIVE InBatches(_, _)
InBatches(x, n) ==
    IF n = 0 THEN 0 ELSE InBatches(x, n - 1) + Occurrences(Batch(n), x)

\* the batches of the first n sends, one after the other
RECURSIVE BatchesUpTo(_)
BatchesUpTo(n) == IF n = 0 THEN << >> ELSE BatchesUpTo(n - 1) \o Batch(n)

\* this step is a call of log(), by the application or by trace()
LogStep == logged' # logged

\* this step drained the queue into a new batch
DrainStep == Len(sends') > Len(sends)

----------------------------------------------------------------------------
\* C1: every logged record is, at every moment, in the queue or in exactly
\* one batch handed to the transport (never in two places, never nowhere),
\* and a batch once drained never changes: a record logged while a send is
\* suspended is not added to that send's batch.
ExactlyOnePlace ==
    \A k \in 1..Len(logged) :
        Occurrences(queue, logged[k]) + InBatches(logged[k], Len(sends)) = 1

BatchesFrozen ==
    \A i \in Sends : sends'[i].batch = sends[i].batch

C1_NoLossNoDuplicate == []ExactlyOnePlace /\ [][BatchesFrozen]_vars

\* a record sits in the queue while an earlier batch's send is suspended
C1_Witness == \E i \in Sends : InFlight(i) /\ Len(queue) >= 1

----------------------------------------------------------------------------
\* C2: with batchSize >= 1, the log() call that brings the queue to exactly
\* batchSize records drains it into exactly one new batch, which holds the
\* last batchSize logged records and has its first request issued, and
\* leaves the queue empty; a log() call that leaves the queue shorter than
\* batchSize makes no batch and no request.
LastLogged(n) == SubSeq(logged', Len(logged') - n + 1, Len(logged'))

SizeTrigger ==
    (LogStep /\ batchSize >= 1) =>
        IF Len(queue) + 1 = batchSize
        THEN /\ Len(sends') = Len(sends) + 1
             /\ queue' = << >>
             /\ sends'[Len(sends')].batch.invocations = LastLogged(batchSize)
             /\ sends'[Len(sends')].requests = 1
             /\ \A i \in Sends : sends'[i] = sends[i]
        ELSE /\ Len(queue) + 1 < batchSize
             /\ sends' = sends
             /\ queue' = Append(queue, logged'[Len(logged')])

C2_SizeTriggeredFlush == [][SizeTrigger]_vars

\* batchSize is 2 and a batch of two records has gone out, the queue empty
C2_Witness ==
    /\ batchSize = 2
    /\ \E i \in Sends : Len(Batch(i)) = 2 /\ queue = << >>

----------------------------------------------------------------------------
\* C3: the batches in the order they were drained, followed by the queue,
\* are exactly the logged records in the order log() was called.
C3_OrderPreserved == BatchesUpTo(Len(sends)) \o queue = logged

\* two traced records were logged in the reverse of their start order
C3_Witness ==
    /\ Len(logged) = 2
    /\ logged[1].invocationId > logged[2].invocationId
    /\ \E i \in Sends : Len(Batch(i)) = 2

----------------------------------------------------------------------------
\* C4: a flush on an empty queue, whoever calls it (the application, the
\* timer, shutdown), makes no batch and no request and leaves the queue
\* and the sends as they are; so no batch handed to the transport is empty.
FlushTrigger == FlushCall \/ TimerTick \/ Shutdown

EmptyFlushIsNoOp ==
    (FlushTrigger /\ queue = << >>) =>
        UNCHANGED <<config, queue, sends, pending, nextId, logged,
                    metadata>>

NoEmptyBatch == \A i \in Sends : Len(Batch(i)) >= 1

C4_EmptyFlushNoOp == []NoEmptyBatch /\ [][EmptyFlushIsNoOp]_vars

\* shutdown() was called when nothing had ever been logged: its flush ran on
\* an empty queue
C4_Witness == stopped /\ logged = << >> /\ sends = << >>

----------------------------------------------------------------------------
\* C5: once shutdown() has been called the interval callback never runs
\* again: the timer stays cancelled, and from then on the queue is drained
\* only by an explicit flush()/shutdown() or by a log() call that reaches
\* batchSize.
NoTimerFlushAfterShutdown ==
    stopped =>
        /\ ~TimerTick
        /\ flushTimer' = NULL
        /\ DrainStep =>
             \/ FlushCall
             \/ Shutdown
             \/ LogStep /\ Len(queue) + 1 >= batchSize

C5_ShutdownStopsTimer == [][NoTimerFlushAfterShutdown]_vars

\* a record logged after shutdown() waits in the queue
C5_Witness == stopped /\ Len(queue) >= 1 /\ Len(queue) < batchSize

----------------------------------------------------------------------------
\* C6: shutdown() drains everything queued at the call into one batch, and
\* it returns only when the send of that batch has returned (true, false
\* on a 4xx, or false after the last attempt).
ShutdownDrainsAll ==
    (Shutdown /\ queue # << >>) =>
        /\ queue' = << >>
        /\ Len(sends') = Len(sends) + 1
        /\ sends'[Len(sends')].batch.invocations = queue
        /\ sends'[Len(sends')].awaited

ShutdownReturnsAfterSend ==
    \A i \in Sends :
        (sends[i].awaited /\ ~sends'[i].awaited) =>
            /\ sends[i].pc = "done"
            /\ sends[i].result \in {"true", "false"}

C6_ShutdownFinalFlush ==
    [][ShutdownDrainsAll /\ ShutdownReturnsAfterSend]_vars

\* the send that a shutdown() awaits has returned, with two records
C6_Witness ==
    \E i \in Sends :
        sends[i].awaited /\ sends[i].pc = "done" /\ Len(Batch(i)) = 2

----------------------------------------------------------------------------
(* Vocabulary of the transport properties: what the endpoint saw *)

Is4xx(r) == r.kind = "response" /\ ~r.ok /\ r.status \in 400..499
IsSuccess(r) == r.kind = "response" /\ r.ok

\* the endpoint has just answered the request of send i
AnsweredStep(i) == sends[i].pc = "fetch" /\ sends'[i] # sends[i]

----------------------------------------------------------------------------
\* C7: a 4xx answer to any attempt ends the send: it returns false in that
\* very step, sets no backoff timer and issues no request afterwards; when
\* the first answer is a 4xx exactly one request was issued.
ClientErrorEndsSend ==
    \A i \in Sends :
        (AnsweredStep(i) /\ Is4xx(sends'[i].last)) =>
            /\ sends'[i].pc = "done"
            /\ sends'[i].result = "false"
            /\ sends'[i].requests = sends[i].requests
            /\ sends'[i].timer = NoTimer
            /\ sends'[i].slept = sends[i].slept

NoRequestAfterReturn ==
    \A i \in Sends :
        sends[i].pc = "done" =>
            /\ sends'[i].pc = "done"
            /\ sends'[i].requests = sends[i].requests
            /\ sends'[i].result = sends[i].result

ClientErrorCounts ==
    \A i \in Sends :
        Is4xx(sends[i].last) =>
            /\ sends[i].pc = "done"
            /\ sends[i].requests = sends[i].failures + 1

C7_ClientErrorTerminal ==
    /\ []ClientErrorCounts
    /\ [][ClientErrorEndsSend /\ NoRequestAfterReturn]_vars

\* a 4xx came as the answer to a retry, after a retryable failure
C7_Witness ==
    \E i \in Sends :
        Is4xx(sends[i].last) /\ sends[i].requests >= 2

----------------------------------------------------------------------------
\* C8: a send all of whose attempts met a retryable failure (a 5xx answer
\* or a network exception, or any other answer that is neither a success
\* nor a 4xx) has issued exactly 3 requests when it returns, and returns
\* false; no send ever issues a fourth request.
AllAttemptsFailed(i) ==
    sends[i].pc = "done" /\ sends[i].failures = sends[i].requests

C8_RetriesExhausted ==
    \A i \in Sends :
        /\ sends[i].requests <= 3
        /\ AllAttemptsFailed(i) =>
             sends[i].requests = 3 /\ sends[i].result = "false"
        /\ sends[i].failures = 3 => AllAttemptsFailed(i)

\* a send has returned after three retryable failures
C8_Witness == \E i \in Sends : AllAttemptsFailed(i) /\ sends[i].failures = 3

----------------------------------------------------------------------------
\* C9: a send returns true exactly when the endpoint answered one of its
\* first 3 requests with success, every earlier answer having been a server
\* failure; it returns in the step of that answer and issues no request
\* after it.
SuccessReturnsTrue ==
    \A i \in Sends :
        (AnsweredStep(i) /\ IsSuccess(sends'[i].last)) =>
            /\ sends'[i].pc = "done"
            /\ sends'[i].result = "true"
            /\ sends'[i].requests = sends[i].requests

TrueIffSuccess ==
    \A i \in Sends :
        /\ sends[i].result = "true" <=> IsSuccess(sends[i].last)
        /\ sends[i].result = "true" =>
             /\ sends[i].pc = "done"
             /\ sends[i].requests \in 1..3
             /\ sends[i].failures = sends[i].requests - 1

C9_TrueIffSuccess == []TrueIffSuccess /\ [][SuccessReturnsTrue]_vars

\* two retryable failures, then success on the third attempt
C9_Witness ==
    \E i \in Sends :
        sends[i].result = "true" /\ sends[i].requests = 3
                                 /\ sends[i].failures = 2

----------------------------------------------------------------------------
\* C10: within one send the attempts follow one another: request k+1
\* (k >= 1) goes out only after request k met a retryable failure and a delay
\* of 1000 * 2^(k-1) ms has passed in full; the first request goes out with
\* no delay, and no delay is waited after the third attempt or after the
\* send has returned.
ClaimedDelay(k) == 1000 * Pow2(k - 1)

BackoffSchedule(s) ==
    /\ \A k \in 1..Len(s.slept) : s.slept[k] >= ClaimedDelay(k)
    /\ Len(s.slept) <= 2
    /\ s.pc = "fetch" =>
         /\ Len(s.slept) = s.requests - 1
         /\ s.failures = s.requests - 1
    /\ s.pc = "delay" =>
         /\ Len(s.slept) = s.requests - 1
         /\ s.failures = s.requests
         /\ s.timer.ms = ClaimedDelay(s.requests)
    /\ s.pc = "done" =>
         /\ Len(s.slept) = s.requests - 1
         /\ s.timer = NoTimer

C10_SequentialBackoff == \A i \in Sends : BackoffSchedule(sends[i])

\* the third request of a send is out, 1000 ms and then 2000 ms waited
C10_Witness ==
    \E i \in Sends :
        sends[i].requests = 3 /\ sends[i].slept = <<1000, 2000>>

----------------------------------------------------------------------------
\* C11 as claimed: every call of send ends, whatever the endpoint answers,
\* as long as each request is answered (or its fetch throws) and each delay
\* elapses: it has then issued at least 1 and at most 3 requests and has
\* returned a boolean; nothing else ever comes out of it.
Returned(i) == IF i \in Sends THEN sends[i].pc = "done" ELSE FALSE

SendTerminates ==
    \A i \in 1..MaxSendCalls : [](i \in Sends => <>Returned(i))

SendResolves ==
    \A i \in Sends :
        /\ sends[i].requests \in 1..3
        /\ sends[i].pc = "done" <=> sends[i].result \in {"true", "false"}
        /\ sends[i].pc # "done" <=> sends[i].result = "pending"

C11_Claimed == SendTerminates /\ []SendResolves

\* C11: every call of send ends and returns a boolean, nothing else ever
\* comes out of it; it has issued at most 3 requests: at least 1 when the
\* body of the request can be built, and none when it cannot.
SendResolvesBuilt ==
    \A i \in Sends :
        /\ sends[i].requests \in 0..3
        /\ Serialisable(sends[i].batch) => sends[i].requests >= 1
        /\ (~Serialisable(sends[i].batch)) => sends[i].requests = 0
        /\ sends[i].pc = "done" <=> sends[i].result \in {"true", "false"}
        /\ sends[i].pc # "done" <=> sends[i].result = "pending"

C11_SendAlwaysTerminates == SendTerminates /\ []SendResolvesBuilt

\* every send made has returned, one after three requests and one without
\* any
C11_Witness ==
    /\ Len(sends) = MaxSendCalls
    /\ \A i \in Sends : sends[i].pc = "done"
    /\ \E i, j \in Sends : sends[i].requests = 0 /\ sends[j].requests = 3

----------------------------------------------------------------------------
\* C12: the queue changes only when log() appends one record to it or a
\* flush drains all of it into a new batch; a step in which a send goes on
\* or returns, with true or with false, leaves the queue as it is, and no
\* record of a batch is ever back in the queue.
QueueFrame ==
    /\ queue' # queue =>
         \/ LogStep /\ queue' = Append(queue, logged'[Len(logged')])
         \/ DrainStep /\ queue' = << >>
    /\ \A i \in Sends : sends'[i] # sends[i] => queue' = queue

NotRequeued ==
    \A i \in Sends : \A k \in 1..Len(Batch(i)) :
        Occurrences(queue, Batch(i)[k]) = 0

C12_OutcomeLeavesQueue == []NotRequeued /\ [][QueueFrame]_vars

\* one send has returned false and another true, and the queue holds a
\* record logged since
C12_Witness ==
    /\ \E i \in Sends : sends[i].result = "false"
    /\ Len(queue) = 1
    /\ \A i \in Sends : sends[i].pc = "done"

----------------------------------------------------------------------------
\* C13: whatever the endpoint answers, no send ever ends otherwise than by
\* returning true or false, so that nothing is thrown into flush(), log(),
\* shutdown() or the timer callback; the only thing a step ever hands to
\* the application is the outcome of a trace() settling in that step, and
\* it is the value its own operation resolved to or the error it threw,
\* whatever the state of the sends.
NoSendThrows ==
    \A i \in Sends : sends[i].result \in {"pending", "true", "false"}

TraceSettleStep(t) == t \in pending /\ t \notin pending'

OnlyOwnOutcome ==
    /\ \A t \in pending : \A o \in AppOutcomes :
         TraceSettle(t, o) =>
             /\ returned'.call = "trace"
             /\ returned'.invocationId = t.invocationId
             /\ returned'.outcome = o
    /\ returned'.call = "trace" =>
         /\ \E t \in pending : TraceSettleStep(t)
         /\ sends' = sends \/ DrainStep
    /\ (\E i \in Sends : sends'[i] # sends[i]) => returned' = NoCall

C13_FailuresContained == []NoSendThrows /\ [][OnlyOwnOutcome]_vars

\* a trace() has just re-thrown the error of its operation, after the send
\* of an earlier record has given up and returned false
C13_Witness ==
    /\ returned.call = "trace"
    /\ returned.outcome.kind = "rejected"
    /\ \E i \in Sends : sends[i].result = "false" /\ sends[i].requests = 3

----------------------------------------------------------------------------
(* Vocabulary of the record properties *)

\* the record that the log() call of this step was given
NewRecord == logged'[Len(logged')]

\* this step is the settling of a trace(): it hands an outcome to a caller
TraceStep == returned'.call = "trace"

\* the records of the queue and of every batch, in the order logged
Stored == BatchesUpTo(Len(sends)) \o queue

----------------------------------------------------------------------------
\* C14: trace() only observes: the step in which the operation of a call
\* settles hands its caller exactly the value it resolved to or exactly the
\* error it threw, and logs exactly one record, with the invocationId of
\* the call and success = true for a value, false for an error; a call
\* that has not settled has no record, no call ever has two, and when the
\* caller gets the outcome the record has been logged.
Observational ==
    \A t \in pending : \A o \in TraceOutcomes :
        TraceSettle(t, o) =>
            /\ returned'.outcome = o
            /\ returned'.invocationId = t.invocationId
            /\ Len(logged') = Len(logged) + 1
            /\ NewRecord.invocationId = t.invocationId
            /\ NewRecord.success = (o.kind = "resolved")

RecordsOf(id) == {k \in 1..Len(logged) : logged[k].invocationId = id}

OneRecordPerTrace ==
    /\ \A t \in pending : RecordsOf(t.invocationId) = {}
    /\ \A id \in 1..MaxLog : Cardinality(RecordsOf(id)) <= 1
    /\ returned.call = "trace" =>
         /\ logged # << >>
         /\ logged[Len(logged)].invocationId = returned.invocationId
         /\ logged[Len(logged)].success
                = (returned.outcome.kind = "resolved")

C14_TraceObservational == []OneRecordPerTrace /\ [][Observational]_vars

\* an operation threw a string, not an Error: trace() re-threw that string
\* and logged the failure
C14_Witness ==
    /\ returned.call = "trace"
    /\ returned.outcome = Rejected(Str("oops"))
    /\ ~logged[Len(logged)].success

----------------------------------------------------------------------------
\* C15 as claimed: once setServerInfo has been called, every record that
\* enters the queue, through trace() or through log(), carries the
\* serverName and the serverVersion set.
ServerInfoSet == "serverName" \in DOMAIN metadata

CarriesServerInfo(rec) ==
    /\ "metadata" \in DOMAIN rec
    /\ "serverName" \in DOMAIN rec.metadata
    /\ rec.metadata.serverName = metadata.serverName
    /\ rec.metadata.serverVersion = metadata.serverVersion

EveryRecordCarriesInfo ==
    (LogStep /\ ServerInfoSet) => CarriesServerInfo(NewRecord)

TracedCarriesInfo ==
    /\ (LogStep /\ TraceStep /\ ServerInfoSet) => CarriesServerInfo(NewRecord)
    /\ (LogStep /\ ~TraceStep) => NewRecord \in ManualRecords(nextId)

----------------------------------------------------------------------------
\* C16: setServerInfo(name, version) leaves the collector holding exactly
\* that name and that version, whatever was set before (so a second call
\* with the same arguments changes nothing), keeps mcpServerId, and changes
\* neither the queue nor any batch nor any record in them; a record traced
\* later carries the name and the version of the latest call.
ServerInfoFrame ==
    \A info \in ServerInfos :
        SetServerInfo(info.name, info.version) =>
            /\ metadata'.serverName = info.name
            /\ metadata'.serverVersion = info.version
            /\ metadata'.mcpServerId = metadata.mcpServerId
            /\ DOMAIN metadata' =
                   {"serverName", "serverVersion", "mcpServerId"}
            /\ UNCHANGED <<queue, sends, logged>>
            /\ (ServerInfoSet /\ metadata.serverName = info.name
                  /\ metadata.serverVersion = info.version)
                   => metadata' = metadata

TracedCarriesLatest ==
    (LogStep /\ TraceStep) =>
        /\ NewRecord.metadata = Spread([sessionId |-> NewRecord.metadata.sessionId],
                                       metadata)
        /\ NewRecord.metadata.mcpServerId = metadata.mcpServerId

StoredAsLogged == Stored = logged

C16_LastWriteWins ==
    []StoredAsLogged /\ [][ServerInfoFrame /\ TracedCarriesLatest]_vars

\* the queue holds a record traced under the first server info and the
\* collector holds the second: the record kept what it was logged with
C16_Witness ==
    /\ Len(queue) = 1
    /\ "metadata" \in DOMAIN queue[1]
    /\ "serverName" \in DOMAIN queue[1].metadata
    /\ queue[1].metadata.serverName = "test-server"
    /\ ServerInfoSet
    /\ metadata.serverName = "other-server"

----------------------------------------------------------------------------
\* C17 as claimed: every record in the queue or in a batch has exactly one
\* of output and error, the one that matches success, whether trace()
\* built it or the caller passed it to log().
HasOneOfOutputError(rec) ==
    IF rec.success
    THEN "output" \in DOMAIN rec /\ "error" \notin DOMAIN rec
    ELSE "error" \in DOMAIN rec /\ "output" \notin DOMAIN rec

C17_Claimed == \A k \in 1..Len(Stored) : HasOneOfOutputError(Stored[k])

\* C17, amended: every record that trace() builds has exactly one of output
\* and error, the one that matches success, and keeps it in the queue and
\* in its batch; log() stores the record of its caller as it is, with or
\* without them.
TracedHasOneOfOutputError ==
    (LogStep /\ TraceStep) => HasOneOfOutputError(NewRecord)

KeptAsLogged ==
    \A k \in 1..Len(logged) : Occurrences(Stored, logged[k]) = 1

C17_TracedRecordsWellFormed ==
    []KeptAsLogged /\ [][TracedHasOneOfOutputError]_vars

\* a batch holds a failed traced record, with error and no output, and the
\* record of the tests passed to log(), with neither
C17_Witness ==
    \E i \in Sends : \E k, l \in 1..Len(Batch(i)) :
        /\ ~Batch(i)[k].success
        /\ "stack" \in DOMAIN Batch(i)[k].error
        /\ Batch(i)[l].success
        /\ "output" \notin DOMAIN Batch(i)[l]

----------------------------------------------------------------------------
\* C18: a record that is in the queue while the interval timer is running
\* is in a batch handed to the transport in the end, whatever the size of
\* the queue and whether or not the earlier sends ever finish: the timer
\* is never further away than flushInterval, and its callback drains the
\* whole queue into one batch whose first request goes out at once.
Queued(id) == \E k \in 1..Len(queue) : queue[k].invocationId = id

Drained(id) ==
    \E i \in Sends : \E k \in 1..Len(Batch(i)) :
        Batch(i)[k].invocationId = id

EventuallyDrained ==
    \A id \in 1..MaxLog :
        []((Queued(id) /\ flushTimer # NULL) => <>Drained(id))

TickDrains ==
    TimerTick =>
        /\ queue' = << >>
        /\ queue # << >> =>
             /\ Len(sends') = Len(sends) + 1
             /\ sends'[Len(sends')].batch.invocations = queue
             /\ sends'[Len(sends')].pc = "fetch"

TickWithinInterval ==
    flushTimer # NULL => (flushTimer >= 0 /\ flushTimer <= flushInterval)

C18_TimerDrainsQueue ==
    EventuallyDrained /\ []TickWithinInterval /\ [][TickDrains]_vars

\* a queue that is short of batchSize has just gone out as the second
\* batch, its first request issued, while the first send waits in backoff
C18_Witness ==
    /\ flushTimer = flushInterval
    /\ Len(sends) = 2
    /\ sends[1].pc = "delay"
    /\ sends[2].pc = "fetch" /\ sends[2].requests = 1
    /\ Len(Batch(2)) < batchSize
    /\ queue = << >>

----------------------------------------------------------------------------
\* C19: the step that drains the queue issues the first request of the new
\* batch itself and no other request, so no send exists without its first
\* request on the wire and the first requests went out in drain order;
\* what can overlap are the later steps: a later send finishes while an
\* earlier one retries.
FirstRequestAtDrain ==
    DrainStep =>
        /\ Len(sends') = Len(sends) + 1
        /\ sends'[Len(sends')].pc = "fetch"
        /\ sends'[Len(sends')].requests = 1
        /\ \A i \in Sends : sends'[i] = sends[i]

FirstRequestOut == \A i \in Sends : sends[i].requests >= 1

C19_FirstRequestsInDrainOrder ==
    []FirstRequestOut /\ [][FirstRequestAtDrain]_vars

\* the second batch has been delivered while the first is at its third
\* request
C19_Witness ==
    /\ Len(sends) = 2
    /\ sends[1].pc = "fetch" /\ sends[1].requests = 3
    /\ sends[2].result = "true"

----------------------------------------------------------------------------
\* C20 as claimed: in the step in which shutdown() returns, no send that
\* carries a record logged before the call (the send of shutdown's own
\* batch and every send made before it) is still under way.
ShutdownReturnStep(i) == sends[i].awaited /\ ~sends'[i].awaited

AllDeliveredAtReturn ==
    \A i \in Sends :
        ShutdownReturnStep(i) => \A j \in 1..i : sends[j].pc = "done"

C20_Claimed == [][AllDeliveredAtReturn]_vars

\* C20, amended: in the step in which shutdown() returns, the send of the
\* batch that shutdown's own flush drained has returned; shutdown() waits
\* for no other send and touches none, so a send made by an earlier flush
\* can still be in flight or waiting in backoff then.
OwnSendReturned ==
    \A i \in Sends :
        ShutdownReturnStep(i) =>
            /\ sends[i].pc = "done"
            /\ sends'[i] = [sends[i] EXCEPT !.awaited = FALSE]
            /\ \A j \in Sends \ {i} : sends'[j] = sends[j]
            /\ UNCHANGED <<queue, flushTimer, logged>>

AwaitedByShutdown ==
    \A i \in Sends : sends[i].awaited => (stopped /\ flushTimer = NULL)

C20_ShutdownAwaitsOwnSend == []AwaitedByShutdown /\ [][OwnSendReturned]_vars

\* the send that shutdown() awaits has returned, so that shutdown() is
\* about to return, and the send of an earlier batch waits in backoff
C20_Witness ==
    \E i, j \in Sends :
        /\ j < i
        /\ sends[i].awaited /\ sends[i].pc = "done"
        /\ sends[j].pc = "delay"

----------------------------------------------------------------------------
\* C21: between two steps of the collector the queue holds fewer than
\* batchSize records (batchSize being at least 1), and every batch handed
\* to the transport holds at least 1 and at most batchSize records,
\* whichever of log(), the timer, flush() and shutdown() drained it.
C21_QueueBelowBatchSize ==
    /\ batchSize >= 1
    /\ Len(queue) < batchSize
    /\ \A i \in Sends : Len(Batch(i)) >= 1 /\ Len(Batch(i)) <= batchSize

\* batchSize is 2: one record went out alone, drained by the timer, by
\* flush() or by shutdown(), and the next one waits in the queue
C21_Witness ==
    /\ batchSize = 2
    /\ Len(queue) = 1
    /\ \E i \in Sends : Len(Batch(i)) = 1

----------------------------------------------------------------------------
\* C22: every attempt of a send ends in exactly one of three ways, tested
\* in this order: an answer flagged ok ends the send with true; otherwise a
\* status of 400..499 ends it with false; otherwise (any other status, an
\* exception of fetch, or an exception raised while the request body is
\* built, in which case no request goes out) the attempt is used up: the
\* send backs off and tries again, or returns false after the third.
AttemptUsedUp(i) ==
    /\ sends'[i].requests = sends[i].requests
    /\ IF sends[i].attempt < 2
       THEN /\ sends'[i].pc = "delay"
            /\ sends'[i].result = "pending"
            /\ sends'[i].attempt = sends[i].attempt
            /\ sends'[i].timer.ms = 1000 * Pow2(sends[i].attempt)
       ELSE /\ sends'[i].pc = "done"
            /\ sends'[i].result = "false"
            /\ sends'[i].attempt = 3

EndsWith(i, value) ==
    /\ sends'[i].pc = "done"
    /\ sends'[i].result = value
    /\ sends'[i].requests = sends[i].requests
    /\ sends'[i].attempt = sends[i].attempt

OneClass(r) ==
    Cardinality({c \in {"success", "terminal", "retryable"} :
                    \/ c = "success" /\ IsSuccess(r)
                    \/ c = "terminal" /\ Is4xx(r)
                    \/ c = "retryable" /\ OtherFailure(r)}) = 1

AnswerClassified ==
    \A i \in Sends :
        AnsweredStep(i) =>
            LET r == sends'[i].last
            IN /\ OneClass(r)
               /\ IF r.kind = "response" /\ r.ok THEN EndsWith(i, "true")
                  ELSE IF r.kind = "response" /\ r.status \in 400..499
                       THEN EndsWith(i, "false")
                  ELSE AttemptUsedUp(i)

\* a batch whose body cannot be built: no request ever goes out, every
\* attempt is used up with its backoff, the send returns false
BuildFailureRetried ==
    \A i \in Sends :
        (~Serialisable(sends[i].batch)) =>
            /\ sends[i].requests = 0
            /\ sends[i].pc \in {"delay", "done"}
            /\ sends[i].pc = "delay" =>
                   /\ sends[i].attempt = Len(sends[i].slept)
                   /\ sends[i].attempt < 2
                   /\ sends[i].timer.ms = 1000 * Pow2(sends[i].attempt)
                   /\ sends[i].result = "pending"
            /\ sends[i].pc = "done" =>
                   /\ sends[i].attempt = 3
                   /\ Len(sends[i].slept) = 2
                   /\ sends[i].result = "false"

C22_AttemptClasses == [][AnswerClassified]_vars /\ []BuildFailureRetried

\* one send gave up after three attempts without a request, its body could
\* not be built; another was answered 304 and went on to a second request
C22_Witness ==
    \E i, j \in Sends :
        /\ ~Serialisable(sends[i].batch)
        /\ sends[i].pc = "done"
        /\ Len(sends[i].slept) = 2
        /\ Serialisable(sends[j].batch)
        /\ sends[j].requests = 2
        /\ sends[j].last = Response(FALSE, 304)

----------------------------------------------------------------------------
\* C23: a send under way is left alone by every later call of the
\* collector: log(), flush(), a tick of the timer and shutdown() change
\* nothing of it; its batch never changes, its attempts are never taken
\* back, and it ends only on a success, on a 4xx or with its third request.
CollectorCall ==
    \/ \E invocation \in LogArguments(nextId) : Log(invocation)
    \/ FlushCall
    \/ TimerTick
    \/ Shutdown

LeftAlone ==
    CollectorCall => \A i \in Sends : sends'[i] = sends[i]

RunsToItsEnd ==
    \A i \in Sends :
        /\ sends'[i].batch = sends[i].batch
        /\ sends'[i].requests >= sends[i].requests
        /\ sends'[i].attempt >= sends[i].attempt
        /\ (InFlight(i) /\ sends'[i].pc = "done") =>
               /\ AnsweredStep(i)
               /\ \/ IsSuccess(sends'[i].last)
                  \/ Is4xx(sends'[i].last)
                  \/ sends'[i].requests = 3

C23_SendNeverCancelled == [][LeftAlone /\ RunsToItsEnd]_vars

\* a send is at its third request although a later batch was drained and
\* shutdown() was called while it was under way
C23_Witness ==
    /\ stopped
    /\ \E i, j \in Sends :
          /\ i < j
          /\ sends[i].pc = "fetch"
          /\ sends[i].requests = 3

----------------------------------------------------------------------------
\* C24: shutdown() can be called again, also while an earlier shutdown()
\* still waits for its send: the timer exists from construction on, the
\* first shutdown() cancels it and nothing starts it again; a further
\* shutdown() drains the records queued at that moment into one batch, and
\* sends nothing when the queue is empty.
TimerFromConstruction == flushTimer = NULL => flushTimer' = NULL

DrainsWhatIsQueued ==
    IF queue = << >>
    THEN sends' = sends /\ queue' = queue
    ELSE /\ queue' = << >>
         /\ Len(sends') = Len(sends) + 1
         /\ sends'[Len(sends')].batch.invocations = queue
         /\ sends'[Len(sends')].requests = 1
         /\ \A i \in Sends : sends'[i] = sends[i]

ShutdownAgain ==
    Shutdown =>
        /\ flushTimer' = NULL
        /\ stopped'
        /\ stopped => (flushTimer = NULL /\ DrainsWhatIsQueued)

C24_ShutdownRepeatable ==
    [][TimerFromConstruction /\ ShutdownAgain]_vars

\* two shutdown() calls overlap: each waits for the send of its own batch
C24_Witness ==
    /\ stopped
    /\ flushTimer = NULL
    /\ \E i, j \in Sends :
          /\ i < j
          /\ sends[i].awaited /\ InFlight(i)
          /\ sends[j].awaited /\ InFlight(j)

----------------------------------------------------------------------------
\* C25: shutdown() switches off the timer and nothing else: a record logged
\* afterwards is appended to the queue, and when that makes the queue reach
\* batchSize the same log() call drains it and issues the first request of
\* the batch, with no flush() call and no timer.
LogAfterShutdown ==
    (stopped /\ LogStep) =>
        /\ logged' = Append(logged, NewRecord)
        /\ flushTimer' = NULL
        /\ IF Len(queue) + 1 >= batchSize
           THEN /\ queue' = << >>
                /\ Len(sends') = Len(sends) + 1
                /\ sends'[Len(sends')].batch.invocations
                       = Append(queue, NewRecord)
                /\ sends'[Len(sends')].pc = "fetch"
                /\ sends'[Len(sends')].requests = 1
                /\ ~sends'[Len(sends')].awaited
           ELSE /\ queue' = Append(queue, NewRecord)
                /\ sends' = sends

C25_SizeTriggerSurvivesShutdown == [][LogAfterShutdown]_vars

\* an operation settled after shutdown(): its record filled the queue and
\* the first request of its batch is out, in the step that logged it
C25_Witness ==
    /\ stopped
    /\ returned.call = "trace"
    /\ queue = << >>
    /\ sends # << >>
    /\ LET s == sends[Len(sends)]
       IN /\ s.pc = "fetch"
          /\ s.requests = 1
          /\ s.batch.invocations[Len(s.batch.invocations)].invocationId
                 = returned.invocationId

----------------------------------------------------------------------------
\* C26: the record of a trace() call is stored when its operation settles,
\* behind every record stored before, whatever the order in which the
\* calls were made; its metadata is the collector's metadata of that
\* moment, so a setServerInfo made while the operation ran shows in it.
IsTraced(rec) ==
    "metadata" \in DOMAIN rec /\ "sessionId" \in DOMAIN rec.metadata

StoredAtCompletion ==
    \A t \in pending :
        TraceSettleStep(t) =>
            /\ NewRecord.invocationId = t.invocationId
            /\ logged' = Append(logged, NewRecord)
            /\ Stored' = Append(Stored, NewRecord)

MetadataAtCompletion ==
    \A t \in pending :
        TraceSettleStep(t) =>
            /\ DOMAIN NewRecord.metadata = {"sessionId"} \cup DOMAIN metadata
            /\ \A k \in DOMAIN metadata :
                   NewRecord.metadata[k] = metadata[k]
            /\ "sessionId" \notin DOMAIN metadata =>
                   NewRecord.metadata.sessionId = t.sessionId

C26_CompletionOrder == [][StoredAtCompletion /\ MetadataAtCompletion]_vars

\* the second call settled first, before any server info was set; the
\* first call, still running when setServerInfo was made, settled after it
C26_Witness ==
    /\ Len(logged) = 2
    /\ IsTraced(logged[1]) /\ IsTraced(logged[2])
    /\ logged[1].invocationId = 2
    /\ logged[2].invocationId = 1
    /\ "serverName" \notin DOMAIN logged[1].metadata
    /\ "serverName" \in DOMAIN logged[2].metadata

----------------------------------------------------------------------------
\* C27: the record of an operation that resolved has success = true and no
\* error; its output is {status: result.status, body: result.data} when
\* the result is an object (not null) with a status property, and
\* {body: result} for every other result (a number, a string, null,
\* undefined, an object without status); for the result 42 the body is 42.
HasStatus(v) == v.type = "object" /\ "status" \in DOMAIN v.fields

ClaimedOutput(v) ==
    IF HasStatus(v)
    THEN [status |-> v.fields.status,
          body |-> IF "data" \in DOMAIN v.fields THEN v.fields.data
                   ELSE Undefined]
    ELSE [body |-> v]

OutputOfResult ==
    \A t \in pending : \A v \in FnValues :
        TraceSettle(t, Resolved(v)) =>
            /\ NewRecord.invocationId = t.invocationId
            /\ NewRecord.success = TRUE
            /\ "error" \notin DOMAIN NewRecord
            /\ NewRecord.output = ClaimedOutput(v)
            /\ v = Number(42) => NewRecord.output.body = Number(42)

C27_OutputFromResult == [][OutputOfResult]_vars

\* one operation returned 42, the other a response with status and data
C27_Witness ==
    \E j, k \in 1..Len(logged) :
        /\ logged[j].success
        /\ logged[j].output = [body |-> Number(42)]
        /\ logged[k].success
        /\ logged[k].output = [status |-> Number(200), body |-> Str("ok")]

----------------------------------------------------------------------------
\* C28: the record of an operation that threw has success = false and no
\* output; when the thrown value is no Error instance its error is
\* {message: String(value)} and nothing else, when it is one, message,
\* code and stack are those of the Error; in both cases the caller of
\* trace() gets the very value that was thrown.
StringForm(v) ==
    CASE v = Str("oops") -> "oops"
      [] v = Number(404) -> "404"
      [] v = Null -> "null"
      [] v = Undefined -> "undefined"
      [] v.type = "object" -> "[object Object]"

ErrorOfThrown ==
    \A t \in pending : \A x \in ThrownValues :
        TraceSettle(t, Rejected(x)) =>
            /\ returned' = [call |-> "trace",
                            invocationId |-> t.invocationId,
                            outcome |-> Rejected(x)]
            /\ NewRecord.invocationId = t.invocationId
            /\ NewRecord.success = FALSE
            /\ "output" \notin DOMAIN NewRecord
            /\ IF x.type = "error"
               THEN NewRecord.error = [message |-> x.message,
                                       code |-> x.code,
                                       stack |-> x.stack]
               ELSE NewRecord.error = [message |-> StringForm(x)]

C28_ErrorFromThrown == [][ErrorOfThrown]_vars

\* one operation threw the number 404, the other an Error with a code
C28_Witness ==
    \E j, k \in 1..Len(logged) :
        /\ ~logged[j].success
        /\ logged[j].error = [message |-> "404"]
        /\ ~logged[k].success
        /\ logged[k].error.message = "denied"
        /\ logged[k].error.code = Str("E_ACCESS")

====
